---- MODULE Spec2Model ----
(***************************************************************************)
(* A model of the tracker synthesis core of src/src/main.cpp: the ADSR     *)
(* envelope, the Instrument, the Channel effect processing and the         *)
(* Tracker mixer.                                                          *)
(*                                                                         *)
(* Every float of the program is modelled as an exact rational number      *)
(* [n |-> numerator, d |-> denominator] in lowest terms, d > 0.  The two   *)
(* IEEE infinities a division by 0.0f produces are [n |-> 1, d |-> 0] and  *)
(* [n |-> -1, d |-> 0].  Float rounding is not modelled.                   *)
(* Phases are kept in turns (phase / 2 pi), so that 2 pi is the rational 1.*)
(***************************************************************************)
EXTENDS Integers, Sequences, FiniteSets, TLC

(***************************************************************************)
(* Exact rational arithmetic                                               *)
(***************************************************************************)
RECURSIVE GCD(_, _)
GCD(a, b) ==
    IF b = 0 THEN a ELSE GCD(b, a % b)

Abs(a) ==
    IF a < 0 THEN -a ELSE a

Sign(a) ==
    IF a < 0 THEN -1 ELSE IF a > 0 THEN 1 ELSE 0

\* The rational n/d in canonical form (d = 0: an infinity, by the sign of n).
Q(n, d) ==
    IF d = 0 THEN [n |-> Sign(n), d |-> 0]
    ELSE LET g == GCD(Abs(n), Abs(d))
             s == Sign(d)
         IN  [n |-> s * (n \div g), d |-> s * (d \div g)]

Int2Q(k) ==
    [n |-> k, d |-> 1]

Zero ==
    Int2Q(0)

One ==
    Int2Q(1)

Inf ==
    [n |-> 1, d |-> 0]

IsFinite(x) ==
    x.d # 0

RNeg(x) ==
    [n |-> -x.n, d |-> x.d]

RAdd(x, y) ==
    IF x.d = 0 THEN x
    ELSE IF y.d = 0 THEN y
    ELSE LET g == GCD(x.d, y.d)
         IN  Q(x.n * (y.d \div g) + y.n * (x.d \div g), (x.d \div g) * y.d)

RSub(x, y) ==
    RAdd(x, RNeg(y))

RMul(x, y) ==
    LET g1 == GCD(Abs(x.n), y.d)
        g2 == GCD(Abs(y.n), x.d)
        a == IF g1 = 0 THEN x.n ELSE x.n \div g1
        b == IF g2 = 0 THEN y.n ELSE y.n \div g2
        c == IF g2 = 0 THEN x.d ELSE x.d \div g2
        e == IF g1 = 0 THEN y.d ELSE y.d \div g1
    IN  Q(a * b, c * e)

\* x / y for y >= 0; a division by +0.0f gives an infinity of the sign of x.
RDiv(x, y) ==
    RMul(x, [n |-> y.d, d |-> y.n])

\* The order of a/b and c/d (b, d > 0): -1, 0 or 1, by continued fractions,
\* which needs no product of the four numbers.
RECURSIVE Cmp(_, _, _, _)
Cmp(a, b, c, d) ==
    LET q1 == a \div b
        q2 == c \div d
        r1 == a % b
        r2 == c % d
    IN  IF q1 < q2 THEN -1
        ELSE IF q1 > q2 THEN 1
        ELSE IF r1 = 0 /\ r2 = 0 THEN 0
        ELSE IF r1 = 0 THEN -1
        ELSE IF r2 = 0 THEN 1
        ELSE Cmp(d, r2, b, r1)

RCmp(x, y) ==
    IF x.d = 0 /\ y.d = 0 THEN Sign(x.n - y.n)
    ELSE IF x.d = 0 THEN x.n
    ELSE IF y.d = 0 THEN -y.n
    ELSE Cmp(x.n, x.d, y.n, y.d)

RLe(x, y) ==
    RCmp(x, y) <= 0

RLt(x, y) ==
    RCmp(x, y) < 0

RGe(x, y) ==
    RCmp(x, y) >= 0

\* ceil(x) of a finite rational.
Ceil(x) ==
    -((-x.n) \div x.d)

\* floor(x) of a finite rational.
Floor(x) ==
    x.n \div x.d

\* The literal 1e-5f of the envelope's guards.
Eps5 ==
    Q(1, 100000)

(***************************************************************************)
(* ADSR                                                                    *)
(***************************************************************************)
States ==
    {"Idle", "Attack", "Decay", "Sustain", "Release"}

\* The values an uninitialised m_state can hold: the five enumerators, or an
\* integer outside the enumeration.
AnyState ==
    States \cup {"Invalid"}

\* ADSR::ADSR() and ADSR::ADSR(a, d, s, r): both set the four parameters and
\* neither sets m_state or m_out, which have no default member initialiser.
\* st and out stand for the indeterminate values the two members hold.
ADSR_new(a, d, s, r, st, out) ==
    [m_state |-> st, m_attack |-> a, m_decay |-> d, m_sustain |-> s,
     m_release |-> r, m_out |-> out]

Gate_ResetsOut(e, g) ==
    IF g THEN [e EXCEPT !.m_state = "Attack", !.m_out = Zero]
    ELSE IF e.m_state # "Idle" THEN [e EXCEPT !.m_state = "Release"]
    ELSE e

Gate_ReleasesIdle(e, g) ==
    IF g THEN [e EXCEPT !.m_state = "Attack"]
    ELSE [e EXCEPT !.m_state = "Release"]

ADSR_gate(e, g) ==
    IF g THEN [e EXCEPT !.m_state = "Attack"]
    ELSE IF e.m_state # "Idle" THEN [e EXCEPT !.m_state = "Release"]
    ELSE e

\* (1.0f / t) / rate
Slope(t, rate) ==
    RDiv(RDiv(One, t), rate)

Sample_ReleaseToZero(e, rate) ==
    CASE e.m_state = "Attack" ->
           LET o == RAdd(e.m_out, RDiv(RDiv(One, e.m_attack), rate))
           IN  IF RGe(o, One) \/ RLe(e.m_attack, Eps5)
               THEN [e EXCEPT !.m_state = "Decay", !.m_out = One]
               ELSE [e EXCEPT !.m_out = o]
      [] e.m_state = "Decay" ->
           LET o == RSub(e.m_out, RDiv(RDiv(One, e.m_decay), rate))
           IN  IF RLe(o, e.m_sustain) \/ RLe(e.m_decay, Eps5)
               THEN [e EXCEPT !.m_state = "Sustain", !.m_out = e.m_sustain]
               ELSE [e EXCEPT !.m_out = o]
      [] e.m_state = "Release" ->
           LET o == RSub(e.m_out, RDiv(RDiv(One, e.m_release), rate))
           IN  IF RLe(o, Zero)
               THEN [e EXCEPT !.m_state = "Idle", !.m_out = Zero]
               ELSE [e EXCEPT !.m_out = o]
      [] OTHER -> e

ADSR_sample(e, rate) ==
    CASE e.m_state = "Attack" ->
           LET o == RAdd(e.m_out, Slope(e.m_attack, rate))
           IN  IF RGe(o, One) \/ RLe(e.m_attack, Eps5)
               THEN [e EXCEPT !.m_state = "Decay", !.m_out = One]
               ELSE [e EXCEPT !.m_out = o]
      [] e.m_state = "Decay" ->
           LET o == RSub(e.m_out, Slope(e.m_decay, rate))
           IN  IF RLe(o, e.m_sustain) \/ RLe(e.m_decay, Eps5)
               THEN [e EXCEPT !.m_state = "Sustain", !.m_out = e.m_sustain]
               ELSE [e EXCEPT !.m_out = o]
      [] e.m_state = "Release" ->
           LET o == RSub(e.m_out, Slope(e.m_release, rate))
           IN  IF RLe(o, Eps5)
               THEN [e EXCEPT !.m_state = "Idle", !.m_out = Zero]
               ELSE [e EXCEPT !.m_out = o]
      [] OTHER -> e

(***************************************************************************)
(* Phase                                                                   *)
(***************************************************************************)
Wrap_Strict(p) ==
    IF RLt(One, p) THEN RSub(p, One) ELSE p

\* if (m_phase >= PI * 2.0f) m_phase -= PI * 2.0f, in turns.
Wrap(p) ==
    IF RGe(p, One) THEN RSub(p, One) ELSE p

Phase_get_TwoTurns(m_phase, freq, sampleRate) ==
    [ret |-> m_phase,
     m_phase |-> LET p == RAdd(m_phase, RDiv(freq, sampleRate))
                 IN  IF RGe(p, Int2Q(2)) THEN RSub(p, One) ELSE p]

\* Phase::get: the phase before the advance (ret, in turns: the program's
\* value is ret * 2 pi) and the advanced, once-wrapped phase.
Phase_get(m_phase, freq, sampleRate) ==
    [ret |-> m_phase, m_phase |-> Wrap(RAdd(m_phase, RDiv(freq, sampleRate)))]

\* Phase::norm: get(freq, sampleRate) / (2 pi), which is get's value in turns.
Phase_norm(m_phase, freq, sampleRate) ==
    Phase_get(m_phase, freq, sampleRate)

\* int(x) of a float: truncation toward zero.
Trunc(x) ==
    IF x.n >= 0 THEN x.n \div x.d ELSE -((-x.n) \div x.d)

LERP_Swapped(a, b, t) ==
    RAdd(RMul(RSub(One, t), b), RMul(a, t))

\* LERP(a, b, t) = (1 - t) * a + b * t
LERP(a, b, t) ==
    RAdd(RMul(RSub(One, t), a), RMul(b, t))

(***************************************************************************)
(* sin, tabulated every 15 degrees and interpolated linearly in between    *)
(***************************************************************************)
SinKnots ==
    << Q(0, 1), Q(259, 1000), Q(1, 2), Q(707, 1000), Q(433, 500),
       Q(483, 500), Q(1, 1) >>

\* sin(2 pi k / 24) for k in 0..24.
SinKnot(k) ==
    IF k <= 6 THEN SinKnots[k + 1]
    ELSE IF k <= 12 THEN SinKnots[12 - k + 1]
    ELSE IF k <= 18 THEN RNeg(SinKnots[k - 12 + 1])
    ELSE RNeg(SinKnots[24 - k + 1])

\* sin(2 pi x) for a finite x in turns.
SinTurn(x) ==
    LET y == RSub(x, Int2Q(Floor(x)))
        s == RMul(y, Int2Q(24))
        k == Floor(s)
    IN  LERP(SinKnot(k), SinKnot(k + 1), RSub(s, Int2Q(k)))

(***************************************************************************)
(* WaveTable                                                               *)
(***************************************************************************)
WaveTableSize ==
    24

WaveForms ==
    {"Sine", "Saw", "Square", "Triangle"}

\* The value setWaveForm stores for the table position t = i / 24.
\* acos(sin(2 pi t)) / (pi / 2) is 1 - 4t, 4t - 1 and 5 - 4t on the three
\* monotone pieces of acos o sin.
WaveValue(wf, t) ==
    CASE wf = "Sine" -> SinTurn(t)
      [] wf = "Saw" -> RSub(RMul(t, Int2Q(2)), One)
      [] wf = "Square" -> IF RGe(t, Q(1, 2)) THEN One ELSE RNeg(One)
      [] wf = "Triangle" ->
           IF RLe(t, Q(1, 4)) THEN RSub(One, RMul(Int2Q(4), t))
           ELSE IF RLe(t, Q(3, 4)) THEN RSub(RMul(Int2Q(4), t), One)
           ELSE RSub(Int2Q(5), RMul(Int2Q(4), t))

WaveTable_setWaveForm(w, wf) ==
    [w EXCEPT !.m_waveTable =
        [i \in 1..WaveTableSize |-> WaveValue(wf, Q(i - 1, WaveTableSize))]]

\* WaveTable::WaveTable()
WaveTable_new ==
    WaveTable_setWaveForm(
        [m_waveTable |-> [i \in 1..WaveTableSize |-> Zero],
         m_noise |-> FALSE, m_lastNoise |-> Zero], "Sine")

\* int(std::floor(x)) % m_waveTable.size(): the int is converted to size_t,
\* so a negative k is reduced as 2^64 + k, and 2^64 mod 24 = 16.
TableIndex(k) ==
    IF k >= 0 THEN k % WaveTableSize
    ELSE ((k % WaveTableSize) + 16) % WaveTableSize

\* WaveTable::sample(t); r is the value the rand() expression yields if it is
\* evaluated.  ret is the returned amplitude.
WaveTable_sample(w, t, r) ==
    IF w.m_noise
    THEN LET held == IF RGe(t, Q(1, 2)) THEN r ELSE w.m_lastNoise
         IN  [w |-> [w EXCEPT !.m_lastNoise = held], ret |-> held]
    ELSE LET i == TableIndex(Floor(RMul(t, Int2Q(WaveTableSize))))
             n == (i + 1) % WaveTableSize
         IN  [w |-> w,
              ret |-> LERP(w.m_waveTable[i + 1], w.m_waveTable[n + 1], t)]

(***************************************************************************)
(* Instrument                                                              *)
(***************************************************************************)
MAX_CHORUS_VOICES ==
    3

NoteTableSize ==
    16

Clamp(v, lo, hi) ==
    IF v < lo THEN lo ELSE IF hi < v THEN hi ELSE v

\* Instrument::Instrument(); st and out are the indeterminate m_state and
\* m_out of the default-constructed envelope.
Instrument_new(st, out) ==
    [m_voices |-> 1,
     m_voicePhases |-> [v \in 0..(MAX_CHORUS_VOICES - 1) |-> Zero],
     m_notes |-> [k \in 0..(NoteTableSize - 1) |-> 0],
     m_waveTable |-> WaveTable_new,
     m_volume |-> ADSR_new(Zero, Zero, One, Zero, st, out)]

Voices_Unclamped(ins, v) ==
    [ins EXCEPT !.m_voices = v]

\* Instrument::voices(int v)
Instrument_voices(ins, v) ==
    [ins EXCEPT !.m_voices = Clamp(v, 1, MAX_CHORUS_VOICES)]

\* The voice loop of Instrument::sample from voice v on: acc carries the
\* instrument, the running sum, the running frequency and the faults met.
\* m_voicePhases[v] with v outside 0..2 is a read and write outside the
\* array: the fault is recorded and the voice contributes nothing.
RECURSIVE VoiceLoop(_, _, _, _)
VoiceLoop(acc, v, sampleRate, rnd) ==
    IF v >= acc.ins.m_voices THEN acc
    ELSE IF v >= MAX_CHORUS_VOICES
    THEN VoiceLoop([acc EXCEPT !.faults = @ \cup {"voice_index"},
                               !.freq = RSub(@, One),
                               !.steps = Append(@, v)],
                   v + 1, sampleRate, rnd)
    ELSE LET ph == Phase_norm(acc.ins.m_voicePhases[v], acc.freq, sampleRate)
             ws == WaveTable_sample(acc.ins.m_waveTable, ph.ret, rnd[v])
         IN  VoiceLoop([acc EXCEPT !.ins.m_voicePhases[v] = ph.m_phase,
                                   !.ins.m_waveTable = ws.w,
                                   !.sum = RAdd(@, ws.ret),
                                   !.freq = RSub(@, One),
                                   !.steps = Append(@, v)],
                       v + 1, sampleRate, rnd)

\* return sample * m_volume.sample(sampleRate), after sample /= m_voices:
\* lp is the voice loop's result, env the envelope after its sample().
\* sample /= m_voices with m_voices = 0 is a float division by zero,
\* recorded as a fault (its value is then an infinity or a NaN, modelled 0).
Instrument_out(ins, lp, env) ==
    LET avg == IF ins.m_voices = 0 THEN Zero
               ELSE RDiv(lp.sum, Int2Q(Abs(ins.m_voices)))
        sgn == IF ins.m_voices < 0 THEN RNeg(avg) ELSE avg
    IN  [ins |-> [lp.ins EXCEPT !.m_volume = env],
         ret |-> RMul(sgn, env.m_out),
         voiceSteps |-> lp.steps,
         faults |-> lp.faults \cup
                    (IF ins.m_voices = 0 THEN {"divide_by_zero"} ELSE {})]

\* The envelope is sampled once the voice loop (lp) is over.
Instrument_mix(ins, sampleRate, lp) ==
    Instrument_out(ins, lp, ADSR_sample(lp.ins.m_volume, sampleRate))

\* Instrument::sample(freq, sampleRate).  rnd[v] is the rand() draw of voice
\* v.
Instrument_sample(ins, freq, sampleRate, rnd) ==
    Instrument_mix(ins, sampleRate,
                   VoiceLoop([ins |-> ins, sum |-> Zero, freq |-> freq,
                              faults |-> {}, steps |-> << >>],
                             0, sampleRate, rnd))

(***************************************************************************)
(* Sound                                                                   *)
(***************************************************************************)
\* NOTE[]: the twelve frequencies of the lowest octave, in Hz.
NOTE ==
    << Q(3270320, 100000), Q(3464783, 100000), Q(3670810, 100000),
       Q(3889087, 100000), Q(4120344, 100000), Q(4365353, 100000),
       Q(4624930, 100000), Q(4899943, 100000), Q(5191309, 100000),
       Q(5500000, 100000), Q(5827047, 100000), Q(6173541, 100000) >>

\* The absent instrument (nullptr).
NULL ==
    0

Effects ==
    {"None", "Vibrato", "Slide", "Arpeggio"}

\* The chord tables of Channel::sample, by Arpeggio enumerator.
ArpOffsets ==
    [Major |-> <<0, 4, 7>>, Minor |-> <<0, 3, 7>>, Maj7 |-> <<0, 4, 7, 10>>,
     Min7 |-> <<0, 3, 7, 10>>, Sus4 |-> <<0, 5, 7>>, Sus2 |-> <<0, 2, 7>>,
     Octave |-> <<0, 12>>]

Arpeggios ==
    DOMAIN ArpOffsets

\* Sound{}: the default member initialisers.
Sound_new ==
    [note |-> 24, volume |-> One, effect |-> "None", arpeggio |-> "Major",
     effectSpeed |-> One, instrument |-> NULL]

RECURSIVE Pow2(_)
Pow2(k) ==
    IF k <= 0 THEN 1 ELSE 2 * Pow2(k - 1)

\* Sound::frequency(noteOffset)
Sound_frequency(s, noteOffset) ==
    LET m == s.note + noteOffset
        n == IF m < 0 THEN 0 ELSE m
    IN  RMul(NOTE[(n % 12) + 1], Int2Q(Pow2(n \div 12)))

\* Channel::sample: HERTZ * bpm * speed, the LFO frequency of a Sound at bpm.
LfoFrequency(s, bpm) ==
    RMul(RMul(Q(1, 60), bpm), RMul(s.effectSpeed, Q(1, 4)))

(***************************************************************************)
(* Channel                                                                 *)
(***************************************************************************)
\* Channel{}: the default member initialisers.
Channel_new ==
    [m_phase |-> Zero, m_time |-> Zero, m_notesTime |-> Zero,
     m_current |-> Sound_new, m_previous |-> Sound_new,
     m_playing |-> FALSE, m_sliding |-> FALSE, m_bar |-> 0,
     m_currentNote |-> 0]

\* instrument->volume().gate(g) on the instrument a Sound refers to.  A call
\* through nullptr is recorded as a fault and changes nothing.
GateOf(insts, i, g) ==
    IF i = NULL THEN [insts |-> insts, faults |-> {"null_instrument"}]
    ELSE [insts |-> [insts EXCEPT ![i].m_volume = ADSR_gate(@, g)],
          faults |-> {}]

Play_AlwaysSnapshots(ch, sound, insts) ==
    LET g == IF sound.instrument # NULL
             THEN GateOf(insts, sound.instrument, TRUE)
             ELSE [insts |-> insts, faults |-> {}]
    IN  [ch |-> [ch EXCEPT !.m_previous = ch.m_current,
                           !.m_current = sound, !.m_playing = TRUE,
                           !.m_sliding = (sound.effect = "Slide"),
                           !.m_phase = Zero, !.m_currentNote = 0],
         insts |-> g.insts, faults |-> g.faults]

\* Channel::play(sound): the six fields of m_current are copied to m_previous
\* only if m_playing, then the six fields of sound are copied to m_current.
Channel_play(ch, sound, insts) ==
    LET g == IF sound.instrument # NULL
             THEN GateOf(insts, sound.instrument, TRUE)
             ELSE [insts |-> insts, faults |-> {}]
    IN  [ch |-> [ch EXCEPT !.m_previous = IF ch.m_playing THEN ch.m_current ELSE @,
                           !.m_current = sound, !.m_playing = TRUE,
                           !.m_sliding = (sound.effect = "Slide"),
                           !.m_phase = Zero, !.m_currentNote = 0],
         insts |-> g.insts, faults |-> g.faults]

\* The fields of a Sound in the order play() copies them.
SoundFields ==
    << "note", "effect", "arpeggio", "instrument", "volume", "effectSpeed" >>

\* The Sound s with its k-th field (in the order of SoundFields) set to the
\* k-th field of from.
CopyField(s, from, k) ==
    [f \in DOMAIN s |-> IF f = SoundFields[k] THEN from[f] ELSE s[f]]

\* The number of the first write of play() on ch: the copy to m_previous
\* is skipped when the channel is not playing.
PlayFirstWrite(ch) ==
    IF ch.m_playing THEN 1 ELSE 7

\* The number of the last write of play(sound): the gate is skipped when
\* the Sound has no instrument.
PlayLastWrite(sound) ==
    IF sound.instrument # NULL THEN 17 ELSE 16

\* The k-th write of Channel::play(sound), in program order: 1..6 copy
\* m_current to m_previous, 7..12 copy sound to m_current, then m_playing,
\* m_sliding, the phase reset, m_currentNote and the gate.
Channel_playWrite(ch, sound, insts, k) ==
    IF k <= 6
    THEN [ch |-> [ch EXCEPT !.m_previous = CopyField(@, ch.m_current, k)],
          insts |-> insts]
    ELSE IF k <= 12
    THEN [ch |-> [ch EXCEPT !.m_current = CopyField(@, sound, k - 6)],
          insts |-> insts]
    ELSE IF k = 13 THEN [ch |-> [ch EXCEPT !.m_playing = TRUE], insts |-> insts]
    ELSE IF k = 14
    THEN [ch |-> [ch EXCEPT !.m_sliding = (sound.effect = "Slide")],
          insts |-> insts]
    ELSE IF k = 15 THEN [ch |-> [ch EXCEPT !.m_phase = Zero], insts |-> insts]
    ELSE IF k = 16 THEN [ch |-> [ch EXCEPT !.m_currentNote = 0], insts |-> insts]
    ELSE [ch |-> ch,
          insts |-> GateOf(insts, ch.m_current.instrument, TRUE).insts]

Stop_ResetsNote(ch, insts) ==
    LET g == IF ch.m_current.instrument # NULL
             THEN GateOf(insts, ch.m_current.instrument, FALSE)
             ELSE [insts |-> insts, faults |-> {}]
    IN  [ch |-> [ch EXCEPT !.m_sliding = FALSE, !.m_playing = FALSE,
                           !.m_currentNote = 0],
         insts |-> g.insts, faults |-> g.faults]

\* Channel::stop()
Channel_stop(ch, insts) ==
    LET g == IF ch.m_current.instrument # NULL
             THEN GateOf(insts, ch.m_current.instrument, FALSE)
             ELSE [insts |-> insts, faults |-> {}]
    IN  [ch |-> [ch EXCEPT !.m_sliding = FALSE, !.m_playing = FALSE],
         insts |-> g.insts, faults |-> g.faults]

\* The arpeggio step of Channel::sample: the chord offset added to noff and
\* the advanced LFO phase.  offs[idx] with idx outside the table is a read
\* outside the array: the fault is recorded and the value read is junk.
ArpStep(ch, lfo, sampleRate, junk) ==
    IF ch.m_current.arpeggio \notin Arpeggios
    THEN [known |-> FALSE, add |-> 0, m_phase |-> ch.m_phase, idx |-> 0,
          len |-> 0, faults |-> {}]
    ELSE LET offs == ArpOffsets[ch.m_current.arpeggio]
             ph == Phase_norm(ch.m_phase, lfo, sampleRate)
             idx == Trunc(RMul(ph.ret, Int2Q(Len(offs))))
             ok == idx \in 0..(Len(offs) - 1)
         IN  [known |-> TRUE, add |-> IF ok THEN offs[idx + 1] ELSE junk,
              m_phase |-> ph.m_phase, idx |-> idx, len |-> Len(offs),
              faults |-> IF ok THEN {} ELSE {"arpeggio_index"}]

SlideDone_Never ==
    One

\* The slide tolerance 1.0f - 1e-3f.
SlideDone ==
    Q(999, 1000)

\* The end of Channel::sample: the timers advance (m_time, m_bar,
\* m_notesTime, m_currentNote) and the instrument's sample is (is) scaled by
\* the Sound's volume.  obs records what the call computed on the way.
Channel_sampleOut(ch, insts, step, delay, arp, slide, t, sliding, vib, freq, faults0, is) ==
    LET time1 == RAdd(ch.m_time, step)
        beat == RGe(time1, delay)
        ntime1 == RAdd(ch.m_notesTime, RMul(step, Int2Q(2)))
        nstep == RGe(ntime1, RDiv(delay, Int2Q(2)))
    IN  [ch |-> [ch EXCEPT !.m_phase = vib.m_phase,
                           !.m_sliding = sliding,
                           !.m_time = IF beat THEN Zero ELSE time1,
                           !.m_bar = IF beat THEN @ + 1 ELSE @,
                           !.m_notesTime = IF nstep THEN Zero ELSE ntime1,
                           !.m_currentNote =
                               IF nstep
                               THEN (IF @ + 1 > 15 THEN 15 ELSE @ + 1)
                               ELSE @],
         insts |-> [insts EXCEPT ![ch.m_current.instrument] = is.ins],
         ret |-> RMul(is.ret, ch.m_current.volume),
         obs |-> [sampled |-> TRUE, freq |-> freq, slide |-> slide, t |-> t,
                  arp |-> ch.m_current.effect = "Arpeggio" /\ arp.known,
                  idx |-> arp.idx, len |-> arp.len, add |-> arp.add,
                  turn |-> ch.m_phase, voiceSteps |-> is.voiceSteps,
                  timers |-> 1],
         faults |-> faults0 \cup is.faults]

\* The instrument is sampled at the frequency the effects left.
Channel_sampleTone(ch, insts, step, sampleRate, rnd, delay, arp, slide, t, sliding, faults0, vib, freq) ==
    Channel_sampleOut(ch, insts, step, delay, arp, slide, t, sliding, vib,
                      freq, faults0,
                      Instrument_sample(insts[ch.m_current.instrument], freq,
                                        sampleRate, rnd))

\* The vibrato of Channel::sample, applied to the frequency f1 the slide
\* left; vib is the LFO's Phase::get when the effect is Vibrato.
Channel_sampleVib(ch, insts, step, sampleRate, rnd, delay, arp, slide, t, sliding, faults0, f1, vib) ==
    LET vt == RAdd(RMul(SinTurn(RAdd(vib.ret, Q(1, 2))), Q(1, 2)), Q(1, 2))
    IN  Channel_sampleTone(ch, insts, step, sampleRate, rnd, delay, arp,
                           slide, t, sliding, faults0, vib,
                           IF ch.m_current.effect = "Vibrato"
                           THEN RSub(f1, RMul(vt, RSub(NOTE[3], NOTE[1])))
                           ELSE f1)

\* The slide of Channel::sample, applied to the frequency f0 of the current
\* Sound at note offset noff; t is m_time / delay.
Channel_sampleSlide(ch, insts, step, sampleRate, rnd, delay, lfo, arp, faults0, noff, f0, slide, t) ==
    Channel_sampleVib(ch, insts, step, sampleRate, rnd, delay, arp, slide, t,
                      IF slide /\ RGe(t, SlideDone) THEN FALSE
                      ELSE ch.m_sliding,
                      faults0,
                      IF slide
                      THEN LERP(Sound_frequency(ch.m_previous, noff), f0, t)
                      ELSE f0,
                      IF ch.m_current.effect = "Vibrato"
                      THEN Phase_get(arp.m_phase, lfo, sampleRate)
                      ELSE [ret |-> Zero, m_phase |-> arp.m_phase])

\* The note offset of Channel::sample once the arpeggio (arp) is resolved:
\* noff0 is the instrument's note table entry.
Channel_sampleNote(ch, insts, step, sampleRate, rnd, delay, lfo, arp, faults0, noff) ==
    Channel_sampleSlide(ch, insts, step, sampleRate, rnd, delay, lfo, arp,
                        faults0, noff, Sound_frequency(ch.m_current, noff),
                        /\ ch.m_current.effect = "Slide"
                        /\ (ch.m_bar % 4) = 0
                        /\ ch.m_sliding,
                        RDiv(ch.m_time, delay))

Channel_sampleArp(ch, insts, step, sampleRate, rnd, delay, lfo, noteOk, noff0, arp) ==
    Channel_sampleNote(ch, insts, step, sampleRate, rnd, delay, lfo, arp,
                       arp.faults \cup
                           (IF noteOk THEN {} ELSE {"note_index"}),
                       IF arp.known THEN noff0 + arp.add ELSE 0)

\* Channel::sample(bpm, step, sampleRate) on a channel whose Sound has an
\* instrument.  rnd are the rand() draws of the instrument's voices, junk the
\* value a read outside the note table or a chord table yields.
Channel_sampleInstr(ch, insts, bpm, step, sampleRate, rnd, junk) ==
    LET noteOk == ch.m_currentNote \in 0..(NoteTableSize - 1)
        lfo == RMul(RMul(Q(1, 60), bpm),
                    RMul(ch.m_current.effectSpeed, Q(1, 4)))
    IN  Channel_sampleArp(ch, insts, step, sampleRate, rnd,
                          RDiv(RDiv(Int2Q(60000), bpm), Int2Q(1000)), lfo,
                          noteOk,
                          IF noteOk
                          THEN insts[ch.m_current.instrument]
                                   .m_notes[ch.m_currentNote]
                          ELSE junk,
                          IF ch.m_current.effect = "Arpeggio"
                          THEN ArpStep(ch, lfo, sampleRate, junk)
                          ELSE [known |-> TRUE, add |-> 0,
                                m_phase |-> ch.m_phase, idx |-> 0,
                                len |-> 0, faults |-> {}])

\* What a sample() call that returns early observes.
NoObs ==
    [sampled |-> FALSE, freq |-> Zero, slide |-> FALSE, t |-> Zero,
     arp |-> FALSE, idx |-> 0, len |-> 0, add |-> 0, turn |-> Zero,
     voiceSteps |-> << >>, timers |-> 0]

Sample_Unguarded(ch, insts, bpm, step, sampleRate, rnd, junk) ==
    IF ch.m_current.instrument = NULL
    THEN [ch |-> ch, insts |-> insts, ret |-> Zero, obs |-> NoObs,
          faults |-> {"null_instrument"}]
    ELSE Channel_sampleInstr(ch, insts, bpm, step, sampleRate, rnd, junk)

\* Channel::sample(bpm, step, sampleRate)
Channel_sample(ch, insts, bpm, step, sampleRate, rnd, junk) ==
    IF ch.m_current.instrument = NULL
    THEN [ch |-> ch, insts |-> insts, ret |-> Zero, obs |-> NoObs,
          faults |-> {}]
    ELSE Channel_sampleInstr(ch, insts, bpm, step, sampleRate, rnd, junk)

(***************************************************************************)
(* Tracker                                                                 *)
(***************************************************************************)
CHANNELS ==
    8

MIX_Average(a, b) ==
    RDiv(RAdd(a, b), Int2Q(2))

\* MIX(a, b) = a + b - a * b
MIX(a, b) ==
    RSub(RAdd(a, b), RMul(a, b))

\* mix = MIX(mix, m_channels[i].sample(...)): r is the channel's sample.
ChannelAcc(acc, i, r) ==
    [chans |-> [acc.chans EXCEPT ![i] = r.ch],
     insts |-> r.insts,
     mix |-> MIX(acc.mix, r.ret),
     rets |-> [acc.rets EXCEPT ![i] = r.ret],
     obs |-> [acc.obs EXCEPT ![i] = r.obs],
     faults |-> acc.faults \cup r.faults]

\* The channel loop of Tracker::sample from channel i on.
RECURSIVE ChannelLoop(_, _, _, _, _, _, _)
ChannelLoop(acc, i, bpm, step, sampleRate, rnd, junk) ==
    IF i >= CHANNELS THEN acc
    ELSE ChannelLoop(ChannelAcc(acc, i,
                                Channel_sample(acc.chans[i], acc.insts, bpm,
                                               step, sampleRate, rnd[i],
                                               junk)),
                     i + 1, bpm, step, sampleRate, rnd, junk)

\* The end of Tracker::sample: m_time advances by step and wraps at delay,
\* and the mix (lp) is scaled by the master volume.
Tracker_out(tr, delay, step, lp) ==
    LET time1 == RAdd(tr.m_time, step)
    IN  [m_channels |-> lp.chans, insts |-> lp.insts,
         m_time |-> IF RGe(time1, delay) THEN Zero ELSE time1,
         ret |-> RMul(lp.mix, tr.m_masterVolume),
         rets |-> lp.rets, obs |-> lp.obs, faults |-> lp.faults]

Tracker_step(tr, insts, bpm, step, rnd, junk) ==
    Tracker_out(tr, RDiv(RDiv(Int2Q(60000), bpm), Int2Q(1000)), step,
                ChannelLoop([chans |-> tr.m_channels, insts |-> insts,
                             mix |-> Zero,
                             rets |-> [c \in 0..(CHANNELS - 1) |-> Zero],
                             obs |-> [c \in 0..(CHANNELS - 1) |-> NoObs],
                             faults |-> {}],
                            0, bpm, step, tr.m_sampleRate, rnd, junk))

\* Tracker::sample(bpm, bars) on the tracker tr = [m_channels, m_masterVolume,
\* m_sampleRate, m_time] and the instruments its Sounds refer to.
Tracker_sample(tr, insts, bpm, bars, rnd, junk) ==
    Tracker_step(tr, insts, bpm,
                 RMul(RDiv(One, tr.m_sampleRate), Int2Q(bars)), rnd, junk)

(***************************************************************************)
(* State                                                                   *)
(***************************************************************************)
VARIABLES
    instruments,     \* the Instrument objects Sounds point to, by identity
    m_channels,      \* Tracker::m_channels
    m_masterVolume,  \* Tracker::m_masterVolume
    m_sampleRate,    \* Tracker::m_sampleRate, the rate every sample() is given
    m_time,          \* Tracker::m_time
    faults,          \* the undefined operations executed so far
    last,            \* the last call: its arguments, the state before, its result
    scen,            \* the envelope's gate episode: its kind and sample count
    drv,             \* the bpm and bars the driver passes to Tracker::sample
    sl,              \* the slide under observation: its frequencies so far
    rel,             \* the release under observation: the stop() it began at
    calls,           \* the number of play() and stop() calls so far
    pc,              \* the play() under way on the sequencing thread
    sw               \* the Slide Sound under observation: where it was played

vars ==
    << instruments, m_channels, m_masterVolume, m_sampleRate, m_time,
       faults, last, scen, drv, sl, rel, calls, pc, sw >>

\* The envelope the direct ADSR calls act on.
EnvI ==
    1

Env ==
    instruments[EnvI].m_volume

MaxCount ==
    5

ScenNone ==
    [ph |-> "none", n |-> 0]

\* Tracker::sample's default arguments.
DefaultDrv ==
    [bpm |-> Int2Q(120), bars |-> 4]

SlNone ==
    [on |-> FALSE]

RelNone ==
    [on |-> FALSE]

\* No play() is under way.
PcIdle ==
    [on |-> FALSE]

SwNone ==
    [on |-> FALSE]

\* Tracker::Tracker(sampleRate): every channel is a Channel{}; m_time starts
\* at 99.
TrackerInit(sr) ==
    /\ m_channels = [c \in 0..(CHANNELS - 1) |-> Channel_new]
    /\ m_masterVolume = One
    /\ m_sampleRate = sr
    /\ m_time = Int2Q(99)
    /\ faults = {}
    /\ last = [op |-> "new"]
    /\ scen = ScenNone
    /\ drv = DefaultDrv
    /\ sl = SlNone
    /\ rel = RelNone
    /\ calls = 0
    /\ pc = PcIdle
    /\ sw = SwNone

\* The indeterminate values an uninitialised m_out is drawn from: in range,
\* above it and below it.
GarbageOut ==
    {Zero, Q(1, 2), One, Int2Q(5), Int2Q(-3)}

(***************************************************************************)
(* The envelope driven directly: gate and sample                           *)
(***************************************************************************)
\* Envelope settings (seconds) and the sample rate (Hz) they are run at.
EnvConfigs ==
    { [a |-> Zero, d |-> Zero, s |-> One, r |-> Zero, rate |-> Int2Q(2)],
      [a |-> Q(100001, 100000), d |-> Zero, s |-> One,
       r |-> Q(100001, 100000), rate |-> One],
      [a |-> Q(3, 4), d |-> Zero, s |-> One, r |-> Q(3, 4), rate |-> Int2Q(2)],
      [a |-> One, d |-> Zero, s |-> One, r |-> One, rate |-> Int2Q(2)],
      [a |-> Eps5, d |-> Zero, s |-> One, r |-> Eps5,
       rate |-> Int2Q(200000)],
      [a |-> Q(3, 4), d |-> Int2Q(2), s |-> Q(1, 2), r |-> One,
       rate |-> Int2Q(2)],
      [a |-> Q(1, 2), d |-> One, s |-> Zero, r |-> Zero, rate |-> Int2Q(2)] }

\* An instrument whose envelope was given the settings cfg.
Configured(cfg, st, out) ==
    [Instrument_new(st, out) EXCEPT
        !.m_volume = ADSR_new(cfg.a, cfg.d, cfg.s, cfg.r, st, out)]

InitEnv ==
    \E cfg \in EnvConfigs, st \in AnyState, out \in GarbageOut :
        /\ instruments = [i \in {EnvI} |-> Configured(cfg, st, out)]
        /\ TrackerInit(cfg.rate)

\* The gate episode after gate(g): a gate(true) at out = 0 starts the attack
\* count, a gate(false) at out = 1 in a started episode the release count.
ScenGate(e, g) ==
    IF g THEN (IF e.m_out = Zero THEN [ph |-> "attack", n |-> 0] ELSE ScenNone)
    ELSE IF scen.ph = "attack" /\ e.m_out = One
         THEN [ph |-> "release", n |-> 0]
         ELSE ScenNone

ScenSample ==
    IF scen.ph = "none" THEN scen
    ELSE [scen EXCEPT !.n = IF @ < MaxCount THEN @ + 1 ELSE @]

\* instruments[EnvI].volume().gate(g)
Gate(g) ==
    /\ instruments' = [instruments EXCEPT ![EnvI].m_volume = ADSR_gate(@, g)]
    /\ last' = [op |-> "gate", g |-> g, pre |-> Env]
    /\ scen' = ScenGate(Env, g)
    /\ UNCHANGED << pc, sw, m_channels, m_masterVolume, m_sampleRate, m_time, faults,
                    drv, sl, rel, calls >>

\* instruments[EnvI].volume().sample(m_sampleRate)
EnvSample ==
    /\ instruments' = [instruments EXCEPT
                          ![EnvI].m_volume = ADSR_sample(@, m_sampleRate)]
    /\ last' = [op |-> "envsample", pre |-> Env,
                ret |-> ADSR_sample(Env, m_sampleRate).m_out]
    /\ scen' = ScenSample
    /\ UNCHANGED << pc, sw, m_channels, m_masterVolume, m_sampleRate, m_time, faults,
                    drv, sl, rel, calls >>

NextEnv ==
    \/ \E g \in BOOLEAN : Gate(g)
    \/ EnvSample

SpecEnv ==
    InitEnv /\ [][NextEnv]_vars

(***************************************************************************)
(* Claims about the envelope                                               *)
(***************************************************************************)
\* C1: gate(true), called in any state, leaves the envelope in Attack and
\* leaves the output level out exactly as it was before the call.
C1_GateOnKeepsOut ==
    (last.op = "gate" /\ last.g) =>
        (Env.m_state = "Attack" /\ Env.m_out = last.pre.m_out)

\* A gate(true) on an envelope in mid-release, at a level above 0.
C1_Witness ==
    /\ last.op = "gate" /\ last.g
    /\ last.pre.m_state = "Release" /\ RLt(Zero, last.pre.m_out)
    /\ Env.m_state = "Attack"

\* C2: gate(false) moves the envelope to Release from Attack, Decay, Sustain
\* and Release, leaves an Idle envelope Idle, and never changes out.
C2_GateOff ==
    (last.op = "gate" /\ ~last.g) =>
        /\ Env.m_out = last.pre.m_out
        /\ last.pre.m_state \in {"Attack", "Decay", "Sustain", "Release"}
              => Env.m_state = "Release"
        /\ last.pre.m_state = "Idle" => Env.m_state = "Idle"

\* A gate(false) on an Idle envelope whose level is 0 after a full release.
C2_Witness ==
    /\ last.op = "gate" /\ ~last.g
    /\ last.pre.m_state = "Idle" /\ Env.m_state = "Idle"
    /\ scen.ph = "none" /\ Env.m_out = Zero

\* C3: with non-negative attack, decay and release and sustain in [0,1], out
\* is in [0,1] in every reachable state, from construction on, and every
\* value sample(R) returns is in [0,1].
C3_OutInUnitRange ==
    /\ RLe(Zero, Env.m_out) /\ RLe(Env.m_out, One)
    /\ last.op = "envsample" => (RLe(Zero, last.ret) /\ RLe(last.ret, One))

\* The settings C4 is about: attack > 0, decay = 0, sustain = 1, release > 0.
C4_Settings ==
    /\ RLt(Zero, Env.m_attack) /\ Env.m_decay = Zero
    /\ Env.m_sustain = One /\ RLt(Zero, Env.m_release)

\* C4 as stated: from out = 0, after gate(true) out is 1 from exactly the
\* ceil(a*R)-th sample() on until gate(false); after that gate(false) the
\* envelope is Idle with out = 0 from exactly the ceil(r*R)-th sample() on.
C4_ExactCounts ==
    C4_Settings =>
        /\ scen.ph = "attack" =>
              ((Env.m_out = One) <=>
                  scen.n >= Ceil(RMul(Env.m_attack, m_sampleRate)))
        /\ scen.ph = "release" =>
              ((Env.m_state = "Idle" /\ Env.m_out = Zero) <=>
                  scen.n >= Ceil(RMul(Env.m_release, m_sampleRate)))

\* C4, amended: in exact arithmetic, out is 1 from the ceil(a*R)-th sample()
\* on when a > 1e-5 and from the first one on when a <= 1e-5; after
\* gate(false) the envelope is Idle with out = 0 from the first sample() n
\* on with n / (r*R) >= 1 - 1e-5, which is the ceil(r*R)-th or an earlier one.
C4_CountsWithThreshold ==
    C4_Settings =>
        /\ scen.ph = "attack" =>
              ((Env.m_out = One) <=>
                  scen.n >= (IF RLe(Env.m_attack, Eps5) THEN 1
                             ELSE Ceil(RMul(Env.m_attack, m_sampleRate))))
        /\ scen.ph = "release" =>
              /\ (Env.m_state = "Idle" /\ Env.m_out = Zero) <=>
                    /\ scen.n >= 1
                    /\ RGe(RDiv(Int2Q(scen.n),
                                RMul(Env.m_release, m_sampleRate)),
                           RSub(One, Eps5))
              /\ scen.n >= Ceil(RMul(Env.m_release, m_sampleRate))
                    => Env.m_state = "Idle"

\* A whole episode: the attack reached 1 and the release has reached Idle
\* one sample before the ceil(r*R)-th.
C4_Witness ==
    /\ C4_Settings
    /\ scen.ph = "release"
    /\ scen.n = Ceil(RMul(Env.m_release, m_sampleRate)) - 1
    /\ Env.m_state = "Idle" /\ Env.m_out = Zero

(***************************************************************************)
(* The instrument driven directly: voices and sample                       *)
(***************************************************************************)
\* The voice counts asked for: every case of the clamp, and the ends of int.
VoiceRequests ==
    {-2147483647, 0, 1, 2, 3, 4, 2147483647}

\* The frequencies (Hz) and the sample rate (Hz) the instrument is run at.
InstrFreqs ==
    {Int2Q(2), Int2Q(3)}

InstrRate ==
    Int2Q(4)

\* No rand() draw is used: the instrument is not in noise mode.
NoRnd ==
    [v \in 0..(MAX_CHORUS_VOICES - 1) |-> Zero]

InitInstr ==
    \E st \in AnyState, out \in {Zero, Int2Q(5)} :
        /\ instruments = [i \in {EnvI} |-> Instrument_new(st, out)]
        /\ TrackerInit(InstrRate)

\* instruments[EnvI].voices(n)
Voices(n) ==
    /\ instruments' = [instruments EXCEPT ![EnvI] = Instrument_voices(@, n)]
    /\ last' = [op |-> "voices", n |-> n, req |-> n]
    /\ UNCHANGED << pc, sw, m_channels, m_masterVolume, m_sampleRate, m_time, faults,
                    scen, drv, sl, rel, calls >>

\* instruments[EnvI].sample(freq, m_sampleRate)
InstrSample(freq) ==
    LET r == Instrument_sample(instruments[EnvI], freq, m_sampleRate, NoRnd)
    IN  /\ instruments' = [instruments EXCEPT ![EnvI] = r.ins]
        /\ faults' = faults \cup r.faults
        /\ last' = [op |-> "isample", voiceSteps |-> r.voiceSteps,
                    ret |-> r.ret,
                    req |-> IF last.op \in {"voices", "isample"}
                            THEN last.req ELSE 1]
        /\ UNCHANGED << pc, sw, m_channels, m_masterVolume, m_sampleRate, m_time,
                        scen, drv, sl, rel, calls >>

NextInstr ==
    \/ \E n \in VoiceRequests : Voices(n)
    \/ \E f \in InstrFreqs : InstrSample(f)

SpecInstr ==
    InitInstr /\ [][NextInstr]_vars

\* C8: voices(n) accepts every integer n and sets the voice count to n
\* clamped into [1, MAX_CHORUS_VOICES]; so the count is in [1,3] in every
\* reachable state, and Instrument::sample reads only the voice phases 0..2
\* and never divides by zero.
C8_VoicesClamped ==
    /\ instruments[EnvI].m_voices \in 1..MAX_CHORUS_VOICES
    /\ last.op = "voices" =>
          instruments[EnvI].m_voices =
              (IF last.n < 1 THEN 1
               ELSE IF last.n > MAX_CHORUS_VOICES THEN MAX_CHORUS_VOICES
               ELSE last.n)
    /\ last.op = "isample" =>
          \A k \in 1..Len(last.voiceSteps) :
              last.voiceSteps[k] \in 0..(MAX_CHORUS_VOICES - 1)
    /\ faults \cap {"voice_index", "divide_by_zero"} = {}

\* A sample() over three voices after a request for more voices than exist.
C8_Witness ==
    /\ last.op = "isample" /\ last.req > MAX_CHORUS_VOICES
    /\ last.voiceSteps = <<0, 1, 2>>
    /\ instruments[EnvI].m_voices = MAX_CHORUS_VOICES

(***************************************************************************)
(* The tracker driven through its channels: play, stop and sample          *)
(***************************************************************************)
Chans ==
    0..(CHANNELS - 1)

\* The beats a channel is followed for.
MaxBar ==
    2

\* The play() and stop() calls a run makes.
MaxCalls ==
    3

\* The values the rand() expression of WaveTable::sample is drawn from.
NoiseValues ==
    {RNeg(One), Q(1, 2)}

\* The values a read outside a table is drawn from.
JunkOffsets ==
    {0, 1}

\* The rand() draws of one Tracker::sample: one per voice of every channel
\* whose instrument is in noise mode.
RndChoices ==
    LET noisy == {c \in Chans :
                     /\ m_channels[c].m_current.instrument # NULL
                     /\ instruments[m_channels[c].m_current.instrument]
                            .m_waveTable.m_noise}
    IN  {[c \in Chans |-> IF c \in noisy THEN f[c] ELSE NoRnd] :
            f \in [noisy -> [0..(MAX_CHORUS_VOICES - 1) -> NoiseValues]]}

TrackerRec ==
    [m_channels |-> m_channels, m_masterVolume |-> m_masterVolume,
     m_sampleRate |-> m_sampleRate, m_time |-> m_time]

\* The envelope of every instrument.
Envelopes ==
    [i \in DOMAIN instruments |-> instruments[i].m_volume]

\* The slide under observation after play(sound) on channel c: a Slide Sound
\* played on a playing channel at a bar boundary starts one.
SlPlay(c, sound) ==
    LET ch == m_channels[c]
    IN  IF /\ sound.effect = "Slide" /\ sound.instrument # NULL
           /\ ch.m_playing /\ (ch.m_bar % 4) = 0 /\ ch.m_time = Zero
        THEN [on |-> TRUE, c |-> c, from |-> Sound_frequency(ch.m_current, 0),
              to |-> Sound_frequency(sound, 0), n |-> 0, first |-> Zero,
              lastf |-> Zero, mono |-> TRUE, bar0 |-> ch.m_bar,
              done |-> FALSE]
        ELSE IF sl.on /\ sl.c = c THEN SlNone ELSE sl

\* The slide under observation after a Tracker::sample with result r: the
\* frequency given to the instrument joins the sequence until the beat ends.
SlSample(r) ==
    IF ~sl.on THEN sl
    ELSE IF sl.done THEN sl
    ELSE LET f == r.obs[sl.c].freq
             up == RLe(sl.from, sl.to)
             down == RLe(sl.to, sl.from)
             ok == \/ sl.n = 0
                   \/ /\ up => RLe(sl.lastf, f)
                      /\ down => RLe(f, sl.lastf)
         IN  [sl EXCEPT !.n = @ + 1,
                        !.first = IF sl.n = 0 THEN f ELSE @,
                        !.lastf = f,
                        !.mono = @ /\ ok,
                        !.done = r.m_channels[sl.c].m_bar > sl.bar0]

\* The release under observation after stop() on channel c: a stop() on a
\* playing channel with an instrument starts one, and any play() ends it.
RelStop(c) ==
    LET ch == m_channels[c]
    IN  IF ch.m_playing /\ ch.m_current.instrument # NULL
        THEN [on |-> TRUE, c |-> c, i |-> ch.m_current.instrument, n |-> 0,
              out0 |-> instruments[ch.m_current.instrument].m_volume.m_out]
        ELSE rel

\* The Slide Sound under observation after play(sound) on channel c.
SwPlay(c, sound) ==
    IF sound.effect = "Slide" /\ sound.instrument # NULL
    THEN [on |-> TRUE, c |-> c, bar |-> m_channels[c].m_bar,
          time |-> m_channels[c].m_time]
    ELSE IF sw.on /\ sw.c = c THEN SwNone ELSE sw

\* m_channels[c].play(sound)
Play(c, sound) ==
    \E r \in {Channel_play(m_channels[c], sound, instruments)} :
        /\ calls < MaxCalls
        /\ calls' = calls + 1
        /\ m_channels' = [m_channels EXCEPT ![c] = r.ch]
        /\ instruments' = r.insts
        /\ faults' = faults \cup r.faults
        /\ last' = [op |-> "play", c |-> c, sound |-> sound,
                    pre |-> m_channels[c], env |-> Envelopes]
        /\ scen' = ScenNone
        /\ sl' = SlPlay(c, sound)
        /\ rel' = RelNone
        /\ sw' = SwPlay(c, sound)
        /\ UNCHANGED << pc, m_masterVolume, m_sampleRate, m_time, drv >>

\* m_channels[c].stop()
Stop(c) ==
    \E r \in {Channel_stop(m_channels[c], instruments)} :
        /\ calls < MaxCalls
        /\ calls' = calls + 1
        /\ m_channels' = [m_channels EXCEPT ![c] = r.ch]
        /\ instruments' = r.insts
        /\ faults' = faults \cup r.faults
        /\ last' = [op |-> "stop", c |-> c, pre |-> m_channels[c],
                    env |-> Envelopes]
        /\ scen' = ScenNone
        /\ sl' = IF sl.on /\ sl.c = c THEN SlNone ELSE sl
        /\ rel' = RelStop(c)
        /\ sw' = IF sw.on /\ sw.c = c THEN SwNone ELSE sw
        /\ UNCHANGED << pc, m_masterVolume, m_sampleRate, m_time, drv >>

\* Tracker::sample(drv.bpm, drv.bars).  A read outside a table (junk) yields
\* any of JunkOffsets.
SampleStep ==
    \E rnd \in RndChoices :
    \E r0 \in {Tracker_sample(TrackerRec, instruments, drv.bpm, drv.bars,
                              rnd, 0)} :
    \E junk \in IF r0.faults \cap {"arpeggio_index", "note_index"} = {}
                THEN {0} ELSE JunkOffsets :
    \E r \in {IF junk = 0 THEN r0
              ELSE Tracker_sample(TrackerRec, instruments, drv.bpm,
                                  drv.bars, rnd, junk)} :
        /\ m_channels' = r.m_channels
        /\ instruments' = r.insts
        /\ m_time' = r.m_time
        /\ faults' = faults \cup r.faults
        /\ last' = [op |-> "sample", ret |-> r.ret, rets |-> r.rets,
                    obs |-> r.obs, env |-> Envelopes,
                    pre |-> m_channels, pins |-> instruments,
                    during |-> pc.on]
        /\ scen' = ScenNone
        /\ sl' = SlSample(r)
        /\ rel' = IF rel.on THEN [rel EXCEPT !.n = @ + 1] ELSE rel
        /\ UNCHANGED << pc, sw, m_masterVolume, m_sampleRate, drv,
                        calls >>

\* Tracker::sample, followed for MaxBar beats.
Sample ==
    /\ \A c \in Chans : m_channels[c].m_bar < MaxBar
    /\ SampleStep

\* The channels the driver plays on; the others stay as constructed.
PlayedChans ==
    {0}

\* The sample rate (Hz), and the driver's arguments, of the channel runs:
\* a beat of 1/2 s, crossed in two samples.
ChanRate ==
    Int2Q(64)

ChanDrv ==
    [bpm |-> Int2Q(120), bars |-> 16]

\* The instruments of the channel runs: 1 as constructed, 2 with a slower
\* envelope and two voices.
Instruments2(st, o1, o2) ==
    [i \in {1, 2} |->
        IF i = 1 THEN Instrument_new(st, o1)
        ELSE [Instrument_voices(Instrument_new(st, o2), 2) EXCEPT
                 !.m_volume = ADSR_new(Q(1, 32), Q(1, 16), Q(1, 2), Q(1, 32),
                                       st, o2)]]

\* The Sounds played.
ChanSounds ==
    { [Sound_new EXCEPT !.note = 33],
      [Sound_new EXCEPT !.note = 33, !.instrument = 1],
      [Sound_new EXCEPT !.note = 45, !.instrument = 2, !.effect = "Slide",
                        !.volume = Q(1, 2)],
      [Sound_new EXCEPT !.note = 33, !.instrument = 2, !.effect = "Arpeggio",
                        !.arpeggio = "Octave", !.effectSpeed = Int2Q(2)] }

\* What the uninitialised m_state and m_out of the envelopes hold.
ChanGarbage ==
    { <<"Idle", Zero>>, <<"Invalid", Int2Q(2)>>, <<"Sustain", Int2Q(-3)>> }

InitChan ==
    \E g \in ChanGarbage :
        /\ instruments = Instruments2(g[1], g[2], g[2])
        /\ m_channels = [c \in Chans |-> Channel_new]
        /\ m_masterVolume = One
        /\ m_sampleRate = ChanRate
        /\ m_time = Int2Q(99)
        /\ faults = {}
        /\ last = [op |-> "new"]
        /\ scen = ScenNone
        /\ drv = ChanDrv
        /\ sl = SlNone
        /\ rel = RelNone
        /\ calls = 0
        /\ pc = PcIdle
        /\ sw = SwNone

NextChan ==
    \/ \E c \in PlayedChans, sound \in ChanSounds : Play(c, sound)
    \/ \E c \in PlayedChans : Stop(c)
    \/ Sample

SpecChan ==
    InitChan /\ [][NextChan]_vars

(***************************************************************************)
(* Claims about Channel::play, Channel::stop and silence without an        *)
(* instrument, checked under SpecChan                                      *)
(***************************************************************************)

\* C5: after stop() on a channel playing an instrument with a finite
\* non-negative release time, while sample() is called and no play()
\* follows, the instrument's envelope is in Release with non-increasing out
\* until it is Idle with out = 0, and from then on the channel's samples are
\* 0; the stop() call itself does not silence the channel when release > 0
\* and out > 0.
C5_ReleaseDecays ==
    (rel.on /\ IsFinite(instruments[rel.i].m_volume.m_release)
            /\ RLe(Zero, instruments[rel.i].m_volume.m_release)) =>
        LET e == instruments[rel.i].m_volume
            e0 == last.env[rel.i]
        IN  /\ e.m_state \in {"Release", "Idle"}
            /\ e.m_state = "Idle" => e.m_out = Zero
            /\ last.op = "sample" => RLe(e.m_out, e0.m_out)
            /\ (last.op = "sample" /\ e0.m_state = "Idle") =>
                   last.rets[rel.c] = Zero
            /\ (last.op = "stop" /\ RLt(Zero, e.m_release)
                                 /\ RLt(Zero, e0.m_out)) =>
                   (e.m_out = e0.m_out /\ e.m_state = "Release")

\* C6: a channel whose current Sound has no instrument returns exactly 0
\* from every sample(); play() and stop() on it never dereference the absent
\* instrument; a Tracker whose channels all lack an instrument returns 0.
C6_NoInstrumentIsSilence ==
    /\ "null_instrument" \notin faults
    /\ last.op = "sample" =>
           /\ \A c \in Chans :
                  last.pre[c].m_current.instrument = NULL =>
                      (last.rets[c] = Zero /\ m_channels[c] = last.pre[c])
           /\ (\A c \in Chans : last.pre[c].m_current.instrument = NULL) =>
                  last.ret = Zero
    /\ (last.op \in {"play", "stop"}
            /\ m_channels[last.c].m_current.instrument = NULL
            /\ last.pre.m_current.instrument = NULL) =>
           Envelopes = last.env

\* A channel played with an absent instrument, stopped, and then sampled.
C6_Witness ==
    /\ last.op = "sample"
    /\ calls >= 2
    /\ last.pre[0].m_current.instrument = NULL
    /\ last.pre[0].m_current.note = 33
    /\ ~last.pre[0].m_playing
    /\ last.rets[0] = Zero
    /\ last.ret = Zero

\* C7 as stated: after every play(s), previous is the Sound that was current
\* immediately before the call, current is s, the playing flag is true, the
\* sliding flag is true exactly when s.effect is Slide, the LFO phase is 0,
\* and the envelope of s's instrument, if any, is in Attack.
C7_PreviousAlwaysSnapshot ==
    last.op = "play" =>
        LET ch == m_channels[last.c]
        IN  /\ ch.m_previous = last.pre.m_current
            /\ ch.m_current = last.sound
            /\ ch.m_playing
            /\ ch.m_sliding <=> (last.sound.effect = "Slide")
            /\ ch.m_phase = Zero
            /\ last.sound.instrument # NULL =>
                   instruments[last.sound.instrument].m_volume.m_state
                       = "Attack"

\* C7 (amended): after every play(s), previous is the Sound that was current
\* immediately before the call when the channel was playing at the call, and
\* is left as it was when the channel was not playing (never played, or
\* stopped); current is s, the playing flag is true, the sliding flag is
\* true exactly when s.effect is Slide, the LFO phase is 0, and the envelope
\* of s's instrument, if any, is in Attack.
C7_PreviousSnapshotWhenPlaying ==
    last.op = "play" =>
        LET ch == m_channels[last.c]
        IN  /\ ch.m_previous = IF last.pre.m_playing
                               THEN last.pre.m_current
                               ELSE last.pre.m_previous
            /\ ch.m_current = last.sound
            /\ ch.m_playing
            /\ ch.m_sliding <=> (last.sound.effect = "Slide")
            /\ ch.m_phase = Zero
            /\ last.sound.instrument # NULL =>
                   instruments[last.sound.instrument].m_volume.m_state
                       = "Attack"

\* A Slide Sound played on a stopped channel whose current and previous
\* Sounds differ.
C7_Witness ==
    /\ last.op = "play"
    /\ ~last.pre.m_playing
    /\ last.pre.m_current # last.pre.m_previous
    /\ last.sound.effect = "Slide"
    /\ last.sound.instrument # NULL
    /\ last.env[last.sound.instrument].m_state # "Attack"
    /\ m_channels[last.c].m_previous = last.pre.m_previous

(***************************************************************************)
(* The arpeggio: Sounds played on a bar boundary, as main plays them, and  *)
(* sampled from there                                                      *)
(***************************************************************************)

\* Tracker::sample once a channel has a Sound with an instrument.
SampleNote ==
    /\ \E c \in Chans : m_channels[c].m_current.instrument # NULL
    /\ Sample

\* m_channels[c].play(sound) at a bar boundary: the bar counter a multiple
\* of 4 and the beat-local time 0.
PlayOnBar(c, sound) ==
    /\ m_channels[c].m_time = Zero
    /\ (m_channels[c].m_bar % 4) = 0
    /\ Play(c, sound)

\* Two instruments with a square wave table; the second one's note table
\* drops an octave after the first entry.
SquareInstruments(st, out) ==
    [i \in {1, 2} |->
        [Instrument_new(st, out) EXCEPT
            !.m_waveTable = WaveTable_setWaveForm(@, "Square"),
            !.m_notes = IF i = 1 THEN @
                        ELSE [k \in 0..(NoteTableSize - 1) |->
                                 IF k = 0 THEN 0 ELSE -12]]]

\* The sample rate and driver arguments of the arpeggio runs: 8 samples a
\* beat.
ArpRate ==
    Int2Q(64)

\* The Arpeggio Sounds played.  With 120 bpm at 64 Hz the LFO advances by
\* effectSpeed / 128 turns a sample: every chord type is played at 1/12 of
\* a turn a sample, Major also at 11/12 and at 2 turns a sample (an LFO of
\* 128 Hz, twice the sample rate).
ArpSounds ==
    { [Sound_new EXCEPT !.note = 33, !.instrument = 1,
                        !.effect = "Arpeggio", !.arpeggio = a,
                        !.effectSpeed = Q(32, 3)] : a \in Arpeggios }
    \cup
    { [Sound_new EXCEPT !.note = 33, !.instrument = 1,
                        !.effect = "Arpeggio", !.arpeggio = "Major",
                        !.effectSpeed = v] : v \in {Q(352, 3), Int2Q(256)} }

InitArp ==
    /\ instruments = SquareInstruments("Invalid", Int2Q(2))
    /\ m_channels = [c \in Chans |-> Channel_new]
    /\ m_masterVolume = One
    /\ m_sampleRate = ArpRate
    /\ m_time = Int2Q(99)
    /\ faults = {}
    /\ last = [op |-> "new"]
    /\ scen = ScenNone
    /\ drv = DefaultDrv
    /\ sl = SlNone
    /\ rel = RelNone
    /\ calls = 0
    /\ pc = PcIdle
    /\ sw = SwNone

NextArp ==
    \/ \E c \in PlayedChans, sound \in ArpSounds : PlayOnBar(c, sound)
    \/ SampleNote

SpecArp ==
    InitArp /\ [][NextArp]_vars

\* What the last Tracker::sample did for the Arpeggio Sound of channel c:
\* the LFO's normalized phase is in [0, 1), the index read from the chord
\* table is within the table, and for Major the offset added to the note
\* is 0 in the first third of the cycle, 4 in the second and 7 in the last.
ArpInBounds(c) ==
    LET o == last.obs[c]
        chord == last.pre[c].m_current.arpeggio
    IN  /\ RLe(Zero, o.turn) /\ RLt(o.turn, One)
        /\ o.len = Len(ArpOffsets[chord])
        /\ o.idx \in 0..(o.len - 1)
        /\ o.add = ArpOffsets[chord][o.idx + 1]
        /\ chord = "Major" =>
               /\ o.len = 3
               /\ RLt(o.turn, Q(1, 3)) => o.add = 0
               /\ (RGe(o.turn, Q(1, 3)) /\ RLt(o.turn, Q(2, 3))) => o.add = 4
               /\ RGe(o.turn, Q(2, 3)) => o.add = 7

LfoBelowRate(c) ==
    /\ RLe(Zero, LfoFrequency(last.pre[c].m_current, drv.bpm))
    /\ RLt(LfoFrequency(last.pre[c].m_current, drv.bpm), m_sampleRate)

SlideRates ==
    {Int2Q(8192), Int2Q(64)}

\* The Sounds played: the note A3 (220 Hz) plain, then A3 and A4 (440 Hz)
\* with the Slide effect, on the instrument with the flat note table
\* (1) and on the one whose note table drops an octave (2).
PlainSounds ==
    { [Sound_new EXCEPT !.note = 33, !.instrument = 1] }

SlideSounds ==
    { [Sound_new EXCEPT !.note = 45, !.instrument = 1, !.effect = "Slide"],
      [Sound_new EXCEPT !.note = 33, !.instrument = 1, !.effect = "Slide"],
      [Sound_new EXCEPT !.note = 45, !.instrument = 2, !.effect = "Slide"] }

\* A Slide Sound played on a channel that is already playing a note.
PlaySlide(c, sound) ==
    /\ m_channels[c].m_playing
    /\ PlayOnBar(c, sound)

InitSlide ==
    \E sr \in SlideRates :
        /\ instruments = SquareInstruments("Invalid", Int2Q(2))
        /\ m_channels = [c \in Chans |-> Channel_new]
        /\ m_masterVolume = One
        /\ m_sampleRate = sr
        /\ m_time = Int2Q(99)
        /\ faults = {}
        /\ last = [op |-> "new"]
        /\ scen = ScenNone
        /\ drv = DefaultDrv
        /\ sl = SlNone
        /\ rel = RelNone
        /\ calls = 0
        /\ pc = PcIdle
        /\ sw = SwNone

NextSlide ==
    \/ \E c \in PlayedChans, sound \in PlainSounds : PlayOnBar(c, sound)
    \/ \E c \in PlayedChans, sound \in SlideSounds : PlaySlide(c, sound)
    \/ SampleNote

SpecSlide ==
    InitSlide /\ [][NextSlide]_vars

RAbs(x) ==
    [n |-> Abs(x.n), d |-> x.d]

\* The frequencies of the slide under observation start at the previous
\* note's frequency, are monotonic (sl.mono) and, once the beat is over,
\* end within the slide tolerance 1e-3 of the way to the new note's.
SlideHolds ==
    /\ sl.n >= 1 => sl.first = sl.from
    /\ sl.mono
    /\ sl.done => RLe(RMul(RAbs(RSub(sl.lastf, sl.to)), Int2Q(1000)),
                      RAbs(RSub(sl.to, sl.from)))

\* C10 as stated: a Slide Sound played on a playing channel at a bar
\* boundary and sampled across one beat gives the instrument frequencies
\* that start at the previous note's frequency, end within the slide
\* tolerance of the new note's and are monotonic in between.
C10_SlideMonotonic ==
    sl.on => SlideHolds

\* The instrument of the slide under observation has an all-zero note table.
SlideFlatNotes ==
    \A k \in 0..(NoteTableSize - 1) :
        instruments[m_channels[sl.c].m_current.instrument].m_notes[k] = 0

\* One sample advances the beat-local time by at most the slide tolerance
\* 1e-3 of a beat: step * 1000 <= delay.
SlideFineStep ==
    RLe(RMul(RMul(RDiv(One, m_sampleRate), Int2Q(drv.bars)), Int2Q(1000)),
        RDiv(Int2Q(60), drv.bpm))

\* C10 (amended): the same, for an instrument whose note-offset table is
\* all zero and a step (bars / sampleRate) of at most 1/1000 of the beat.
C10_SlideMonotonicFlatFine ==
    (sl.on /\ SlideFlatNotes /\ SlideFineStep) => SlideHolds

\* A slide from 220 Hz up to 440 Hz on the flat instrument, followed over
\* the 1024 samples of its beat, after which the sliding flag is cleared.
C10_Witness ==
    /\ sl.on /\ sl.done
    /\ SlideFlatNotes /\ SlideFineStep
    /\ sl.from = Int2Q(220) /\ sl.to = Int2Q(440)
    /\ sl.n = 1024
    /\ sl.first = Int2Q(220)
    /\ RLt(Int2Q(439), sl.lastf)
    /\ ~m_channels[sl.c].m_sliding

(***************************************************************************)
(* The phase accumulator on its own: Phase::get with the frequencies the   *)
(* engine computes                                                         *)
(***************************************************************************)
\* The advances a run makes.
MaxAdvance ==
    4

\* The sample rate of the program, SR.
PhaseRate ==
    Int2Q(22050)

\* A Sound of the given note, effect speed and nothing else.
NoteSound(note, speed) ==
    [Sound_new EXCEPT !.note = note, !.effectSpeed = speed]

\* The Sounds whose frequencies are passed on: A3 (220 Hz) and the note 117
\* (28160 Hz), with the effect speeds 1 and 2.
PhaseSounds ==
    {NoteSound(33, One), NoteSound(117, Int2Q(2))}

\* Instrument::sample, lines 226-229: the frequency of voice v is the base
\* frequency less v.
VoiceFrequency(freq, v) ==
    RSub(freq, Int2Q(v))

\* The frequencies the engine passes to Phase::get for one of PhaseSounds at
\* the default bpm: the LFO's and every voice's.
EngineFreqs ==
    {LfoFrequency(s, DefaultDrv.bpm) : s \in PhaseSounds} \cup
    {VoiceFrequency(Sound_frequency(s, 0), v) :
        s \in PhaseSounds, v \in 0..(MAX_CHORUS_VOICES - 1)}

\* The phases a run starts at: a new accumulator's, and the one a hundred
\* advances at 220 Hz lead to.
PhaseStarts ==
    {Zero, Q(2200, 2205)}

InitPhase ==
    /\ \E p \in PhaseStarts :
           m_channels = [c \in 0..(CHANNELS - 1) |->
                            IF c = 0 THEN [Channel_new EXCEPT !.m_phase = p]
                            ELSE Channel_new]
    /\ instruments = [i \in {EnvI} |-> Instrument_new("Idle", Zero)]
    /\ m_masterVolume = One
    /\ m_sampleRate = PhaseRate
    /\ m_time = Int2Q(99)
    /\ faults = {}
    /\ last = [op |-> "new"]
    /\ scen = ScenNone
    /\ drv = DefaultDrv
    /\ sl = SlNone
    /\ rel = RelNone
    /\ calls = 0
    /\ pc = PcIdle
    /\ sw = SwNone

\* m_channels[0].m_phase.norm(freq, m_sampleRate)
PhaseNorm(freq) ==
    \E r \in {Phase_norm(m_channels[0].m_phase, freq, m_sampleRate)} :
        /\ calls < MaxAdvance
        /\ calls' = calls + 1
        /\ m_channels' = [m_channels EXCEPT ![0].m_phase = r.m_phase]
        /\ last' = [op |-> "norm", freq |-> freq, ret |-> r.ret,
                    pre |-> m_channels[0].m_phase]
        /\ UNCHANGED << pc, sw, instruments, m_masterVolume, m_sampleRate, m_time,
                        faults, scen, drv, sl, rel >>

NextPhase ==
    \E f \in EngineFreqs : PhaseNorm(f)

SpecPhase ==
    InitPhase /\ [][NextPhase]_vars

InTurn(p) ==
    RLe(Zero, p) /\ RLt(p, One)

\* C11 as stated: after every advance of the phase accumulator, for every
\* frequency the engine passes to it (LFO frequencies and voice frequencies
\* baseFrequency - v), the stored phase is in [0, 2 pi) (one turn), and so
\* every value norm returns is in [0, 1).
C11_PhaseInRange ==
    /\ InTurn(m_channels[0].m_phase)
    /\ last.op = "norm" => InTurn(last.ret)

\* C11 (amended): an advance with a frequency f, 0 <= f <= sampleRate / 2,
\* from a stored phase in [0, 2 pi) leaves the stored phase in [0, 2 pi);
\* norm returns the phase before the advance, so its value is in [0, 1) as
\* long as the advances so far were of that kind.
C11_PhaseInRangeBelowNyquist ==
    (/\ last.op = "norm"
     /\ InTurn(last.pre)
     /\ RLe(Zero, last.freq)
     /\ RLe(last.freq, RDiv(m_sampleRate, Int2Q(2))))
    => /\ InTurn(m_channels[0].m_phase)
       /\ InTurn(last.ret)
       /\ m_channels[0].m_phase \in
              {RAdd(last.pre, RDiv(last.freq, m_sampleRate)),
               RSub(RAdd(last.pre, RDiv(last.freq, m_sampleRate)), One)}

\* An advance at 220 Hz that passes the end of the turn and is wrapped.
C11_Witness ==
    /\ last.op = "norm" /\ last.freq = Int2Q(220)
    /\ RLt(m_channels[0].m_phase, last.pre)
    /\ InTurn(m_channels[0].m_phase)

(***************************************************************************)
(* The blend of the channels: MIX as float arithmetic evaluates it, and    *)
(* the tracker with Sounds on several channel slots                        *)
(***************************************************************************)
\* The power of two a significand n of more than 24 bits is cut by.
RECURSIVE RoundShift(_)
RoundShift(n) ==
    IF n < 16777216 THEN 1 ELSE 2 * RoundShift(n \div 2)

\* The float nearest to x (24 significant bits, ties to even) for x a
\* multiple of a power of two, as every sum and product of floats is; the
\* exponent range is not modelled.
FRound(x) ==
    IF x.d = 0 \/ Abs(x.n) < 16777216 THEN x
    ELSE LET a == Abs(x.n)
             p == RoundShift(a)
             q == a \div p
             r == a % p
             m == IF 2 * r > p \/ (2 * r = p /\ q % 2 = 1) THEN q + 1 ELSE q
         IN  Q(Sign(x.n) * m * p, x.d)

\* MIX(a, b) on two floats: each of the sum, the product and the difference
\* is rounded to a float.
MIX_float(a, b) ==
    FRound(RSub(FRound(RAdd(a, b)), FRound(RMul(a, b))))

\* Floats of a short significand, and two of a long one: 0.3f and 3 * 2^-26.
ShortFloats ==
    {Zero, One, Q(1, 2), Q(-1, 2), Q(3, 4), Q(1, 4), Q(-3, 4), RNeg(One),
     Int2Q(2), Q(1, 8)}

LongFloats ==
    {Q(5033165, 16777216), Q(3, 67108864), Q(-5033165, 16777216)}

\* The argument pairs MIX is applied to.
MixPairs ==
    ((ShortFloats \cup LongFloats) \X ShortFloats) \cup
    (ShortFloats \X LongFloats)

\* The channel slots Sounds are played on: the first, a middle and the last.
MixChans ==
    {0, 3, 7}

\* The Sounds played: A3 on the first instrument, at full and at half volume.
MixSounds ==
    { [Sound_new EXCEPT !.note = 33, !.instrument = 1, !.volume = v] :
        v \in {One, Q(1, 2)} }

InitMix ==
    /\ instruments = SquareInstruments("Invalid", Int2Q(2))
    /\ TrackerInit(ArpRate)

\* MIX(a, b) and MIX(b, a), applied before the tracker is driven.
Mix(a, b) ==
    /\ calls = 0
    /\ pc = PcIdle
    /\ sw = SwNone
    /\ last.op \in {"new", "mix"}
    /\ last' = [op |-> "mix", a |-> a, b |-> b, ab |-> MIX_float(a, b),
                ba |-> MIX_float(b, a), exact |-> MIX(a, b)]
    /\ UNCHANGED << pc, sw, instruments, m_channels, m_masterVolume, m_sampleRate,
                    m_time, faults, scen, drv, sl, rel, calls >>

\* p.masterVolume(v)
MasterVolume(v) ==
    /\ m_masterVolume # v
    /\ m_masterVolume' = v
    /\ last' = [op |-> "masterVolume", v |-> v]
    /\ UNCHANGED << pc, sw, instruments, m_channels, m_sampleRate, m_time, faults,
                    scen, drv, sl, rel, calls >>

\* m_channels[c].play(sound) before the first Tracker::sample reaches a
\* channel with an instrument.
PlayAtStart(c, sound) ==
    /\ \A k \in Chans : m_channels[k].m_time = Zero /\ m_channels[k].m_bar = 0
    /\ Play(c, sound)

NextMix ==
    \/ \E ab \in MixPairs : Mix(ab[1], ab[2])
    \/ MasterVolume(Q(1, 2))
    \/ \E c \in MixChans, sound \in MixSounds : PlayAtStart(c, sound)
    \/ SampleNote

SpecMix ==
    InitMix /\ [][NextMix]_vars

\* The channels whose sample was not zero in the last Tracker::sample.
Sounding ==
    {c \in Chans : last.rets[c] # Zero}

\* Tracker::sample with exactly one channel sounding returns that channel's
\* sample times the master volume, whatever the slot.
SingleChannelScaled ==
    (last.op = "sample" /\ Cardinality(Sounding) = 1) =>
        \A c \in Sounding : last.ret = RMul(last.rets[c], m_masterVolume)

\* C12 as stated: mix(a, b) = mix(b, a), mix(0, b) = b and mix(1, b) = 1
\* for all a and b; so one sounding channel x, wherever its slot, makes
\* Tracker::sample return x times the master volume.
C12_MixIdentities ==
    /\ last.op = "mix" =>
          /\ last.ab = last.ba
          /\ last.a = Zero => last.ab = last.b
          /\ last.a = One => last.ab = One
    /\ SingleChannelScaled

\* C12 (amended): for finite floats, mix(a, b) = mix(b, a) and mix(0, b) = b
\* hold exactly; mix(1, b) is 1 in exact arithmetic, and as a float it is 1
\* or 1 - 2^-24 for b in [-1, 1]; the consequence for Tracker::sample holds.
C12_MixIdentitiesRounded ==
    /\ last.op = "mix" =>
          /\ last.ab = last.ba
          /\ last.a = Zero => last.ab = last.b /\ last.exact = last.b
          /\ last.a = One =>
                /\ last.exact = One
                /\ (RLe(RNeg(One), last.b) /\ RLe(last.b, One)) =>
                      last.ab \in {One, Q(16777215, 16777216)}
    /\ SingleChannelScaled

\* The last slot alone sounding, at half master volume.
C12_Witness ==
    /\ last.op = "sample"
    /\ Sounding = {7}
    /\ m_masterVolume = Q(1, 2)
    /\ last.ret = RMul(last.rets[7], Q(1, 2))
    /\ m_channels[0].m_current.instrument = NULL

\* The step Tracker::sample gives its channels: (1 / m_sampleRate) * bars.
DrvStep ==
    RMul(RDiv(One, m_sampleRate), Int2Q(drv.bars))

\* The beat duration: (60000 / bpm) / 1000.
DrvDelay ==
    RDiv(RDiv(Int2Q(60000), drv.bpm), Int2Q(1000))

\* Channel c's beat timer and bar counter were stepped once by the last
\* Tracker::sample.
TimerSteppedOnce(c) ==
    LET t1 == RAdd(last.pre[c].m_time, DrvStep)
    IN  IF RGe(t1, DrvDelay)
        THEN /\ m_channels[c].m_time = Zero
             /\ m_channels[c].m_bar = last.pre[c].m_bar + 1
        ELSE /\ m_channels[c].m_time = t1
             /\ m_channels[c].m_bar = last.pre[c].m_bar

\* The channels whose current Sound referred to instrument i at the last
\* Tracker::sample.
UsersOf(i) ==
    {c \in Chans : last.pre[c].m_current.instrument = i}

\* Instrument i's envelope and voice phases were stepped once by the last
\* Tracker::sample: the envelope by one ADSR::sample, and voice v by one
\* Phase::get at the frequency a channel gave, less v.
InstrumentSteppedOnce(i) ==
    /\ instruments[i].m_volume =
           ADSR_sample(last.pins[i].m_volume, m_sampleRate)
    /\ \A v \in 0..(Clamp(last.pins[i].m_voices, 0, MAX_CHORUS_VOICES) - 1) :
           \E c \in UsersOf(i) :
               instruments[i].m_voicePhases[v] =
                   Phase_get(last.pins[i].m_voicePhases[v],
                             VoiceFrequency(last.obs[c].freq, v),
                             m_sampleRate).m_phase

\* C13: each Tracker::sample steps every channel's beat timer and bar
\* counter once, and every envelope and voice phase reachable from a
\* channel's current Sound once, whether or not a channel has an instrument
\* and whether an instrument is referred to by one or by several channels.
C13_EverythingSteppedOnce ==
    last.op = "sample" =>
        /\ \A c \in Chans : TimerSteppedOnce(c)
        /\ \A i \in DOMAIN instruments :
               UsersOf(i) # {} => InstrumentSteppedOnce(i)

(***************************************************************************)
(* The two threads of main(): play() on the sequencing thread, write by    *)
(* write, and Tracker::sample on the audio thread.  The program takes no   *)
(* lock, so the callback may run between any two writes.                   *)
(***************************************************************************)
\* The driver arguments of these runs: one Tracker::sample a beat.
RaceDrv ==
    [bpm |-> Int2Q(120), bars |-> 32]

\* The Sounds played: A3 on the first instrument and A4 on the second.
RaceSounds ==
    { [Sound_new EXCEPT !.note = 33, !.instrument = 1],
      [Sound_new EXCEPT !.note = 45, !.instrument = 2, !.volume = Q(1, 2)] }

InitRace ==
    /\ instruments = Instruments2("Idle", Zero, Zero)
    /\ m_channels = [c \in Chans |-> Channel_new]
    /\ m_masterVolume = One
    /\ m_sampleRate = ChanRate
    /\ m_time = Int2Q(99)
    /\ faults = {}
    /\ last = [op |-> "new"]
    /\ scen = ScenNone
    /\ drv = RaceDrv
    /\ sl = SlNone
    /\ rel = RelNone
    /\ calls = 0
    /\ pc = PcIdle
    /\ sw = SwNone

\* The sequencing thread does write k of m_channels[c].play(sound).
PlayWrite(c, sound, k) ==
    \E r \in {Channel_playWrite(m_channels[c], sound, instruments, k)} :
        /\ m_channels' = [m_channels EXCEPT ![c] = r.ch]
        /\ instruments' = r.insts
        /\ pc' = IF k = PlayLastWrite(sound) THEN PcIdle
                 ELSE [on |-> TRUE, c |-> c, sound |-> sound, k |-> k + 1]
        /\ last' = [op |-> "write", c |-> c, sound |-> sound, k |-> k]
        /\ UNCHANGED << m_masterVolume, m_sampleRate, m_time, faults, scen,
                        drv, sl, rel, sw >>

\* The sequencing thread enters m_channels[c].play(sound) and does its first
\* write.
PlayBegin(c, sound) ==
    /\ ~pc.on
    /\ calls < MaxCalls
    /\ calls' = calls + 1
    /\ PlayWrite(c, sound, PlayFirstWrite(m_channels[c]))

\* The sequencing thread does the next write of the play() under way.
PlayNext ==
    /\ pc.on
    /\ PlayWrite(pc.c, pc.sound, pc.k)
    /\ UNCHANGED calls

NextRace ==
    \/ \E c \in PlayedChans, sound \in RaceSounds : PlayBegin(c, sound)
    \/ PlayNext
    \/ Sample

SpecRace ==
    InitRace /\ [][NextRace]_vars

\* C14: in the program as main() drives it, play() is serialized with the
\* audio callback: no Tracker::sample runs between the first and the last
\* write of a play(), so a sample never sees a partially installed Sound:
\* the current Sound of every channel is a whole Sound that was played (or
\* the initial one), and a channel that is playing an instrument has had
\* its note index reset and its envelope gated.
C14_PlaySerialized ==
    last.op = "sample" =>
        /\ ~last.during
        /\ \A c \in PlayedChans :
               last.pre[c].m_current \in RaceSounds \cup {Sound_new}

(***************************************************************************)
(* Claims about the transitions and the first state of the envelope,       *)
(* checked under SpecEnv                                                   *)
(***************************************************************************)
\* The state changes ADSR::sample may make.
SampleEdges ==
    { <<"Attack", "Decay">>, <<"Decay", "Sustain">>, <<"Release", "Idle">> }

\* C15: ADSR::sample changes the state only along Attack -> Decay,
\* Decay -> Sustain and Release -> Idle; in Sustain it returns sustain and in
\* Idle it returns 0, on every call and without changing the state.
C15_SampleTransitions ==
    last.op = "envsample" =>
        /\ last.pre.m_state # Env.m_state =>
               <<last.pre.m_state, Env.m_state>> \in SampleEdges
        /\ last.pre.m_state = "Sustain" =>
               Env.m_state = "Sustain" /\ last.ret = last.pre.m_sustain
        /\ last.pre.m_state = "Idle" =>
               Env.m_state = "Idle" /\ last.ret = Zero

(***************************************************************************)
(* The slide played anywhere in the bar: a Slide Sound played at or off a  *)
(* bar boundary and sampled over the following beats                       *)
(***************************************************************************)
\* The beats a channel is followed for in these runs.
MaxLongBar ==
    5

\* Tracker::sample once a channel has a Sound with an instrument, followed
\* for MaxLongBar beats.
SampleLong ==
    /\ \E c \in Chans : m_channels[c].m_current.instrument # NULL
    /\ \A c \in Chans : m_channels[c].m_bar < MaxLongBar
    /\ SampleStep

\* The beat-local times a Slide Sound is played at: on the beat and half
\* way through it.
SlideMoments ==
    {Zero, Q(1, 4)}

\* The Slide Sounds played: A4 on the flat instrument and on the one whose
\* note table drops an octave.
GlideSounds ==
    { [Sound_new EXCEPT !.note = 45, !.instrument = i, !.effect = "Slide"] :
        i \in {1, 2} }

\* m_channels[c].play(sound) of a Slide Sound on a channel that is playing a
\* note, in its first or second beat: the bar counter is then a multiple of
\* 4 or not, and the beat-local time 0 or not.
PlaySlideAt(c, sound) ==
    /\ m_channels[c].m_playing
    /\ ~sw.on
    /\ m_channels[c].m_bar <= 1
    /\ m_channels[c].m_time \in SlideMoments
    /\ Play(c, sound)

\* The first play() on a channel.
PlayFirst(c, sound) ==
    /\ ~m_channels[c].m_playing
    /\ PlayOnBar(c, sound)

NextGlide ==
    \/ \E c \in PlayedChans, sound \in PlainSounds : PlayFirst(c, sound)
    \/ \E c \in PlayedChans, sound \in GlideSounds : PlaySlideAt(c, sound)
    \/ SampleLong

SpecGlide ==
    InitSlide /\ [][NextGlide]_vars

\* The first bar counter value, from the one at the play() on, that is a
\* multiple of 4: the slide is computed in that beat only.
SlideBar ==
    4 * ((sw.bar + 3) \div 4)

\* The note offset Channel::sample read for channel c in the last
\* Tracker::sample (no arpeggio).
LastNoteOffset(c) ==
    last.pins[last.pre[c].m_current.instrument]
        .m_notes[last.pre[c].m_currentNote]

\* The Slide Sound under observation is over once its beat is: the sliding
\* flag is cleared when the bar counter has passed SlideBar, and once it is
\* cleared a sample() leaves it cleared and gives the instrument the current
\* note's own frequency.
SlideEnds ==
    /\ m_channels[sw.c].m_bar > SlideBar => ~m_channels[sw.c].m_sliding
    /\ (last.op = "sample" /\ ~last.pre[sw.c].m_sliding) =>
           /\ ~m_channels[sw.c].m_sliding
           /\ last.obs[sw.c].freq =
                  Sound_frequency(last.pre[sw.c].m_current,
                                  LastNoteOffset(sw.c))

C20_NewEnvelopeIdle ==
    /\ last.op = "new" => Env.m_state = "Idle" /\ Env.m_out = Zero
    /\ (last.op = "envsample" /\ last.pre.m_state = "Idle") =>
           last.ret = Zero /\ Env.m_state = "Idle"
    /\ (last.op = "gate" /\ ~last.g /\ last.pre.m_state = "Idle") =>
           Env.m_state = "Idle"

(***************************************************************************)
(* The wave table on its own: setWaveForm, noise and sample                *)
(***************************************************************************)
\* The phases sample() is given, in 48ths of a turn: table positions (the
\* quarter turns among them) and points half way between two positions.
WaveTimes ==
    {Q(k, 2 * WaveTableSize) : k \in {0, 1, 2, 12, 13, 24, 25, 36, 46, 47}}

\* The wave table the direct calls act on.
Wave ==
    instruments[EnvI].m_waveTable

InitWave ==
    /\ instruments = [i \in {EnvI} |-> Instrument_new("Idle", Zero)]
    /\ TrackerInit(PhaseRate)

\* instruments[EnvI].waveTable().setWaveForm(wf)
SetWaveForm(wf) ==
    /\ instruments' = [instruments EXCEPT
                          ![EnvI].m_waveTable = WaveTable_setWaveForm(@, wf)]
    /\ last' = [op |-> "setWaveForm", wf |-> wf]
    /\ UNCHANGED << m_channels, m_masterVolume, m_sampleRate, m_time, faults,
                    scen, drv, sl, rel, calls, pc, sw >>

\* instruments[EnvI].waveTable().noise(v)
Noise(v) ==
    /\ Wave.m_noise # v
    /\ instruments' = [instruments EXCEPT ![EnvI].m_waveTable.m_noise = v]
    /\ last' = [op |-> "noise", v |-> v]
    /\ UNCHANGED << m_channels, m_masterVolume, m_sampleRate, m_time, faults,
                    scen, drv, sl, rel, calls, pc, sw >>

\* instruments[EnvI].waveTable().sample(t); r is what the rand() expression
\* yields if it is evaluated.  prev is the phase of the call before, if the
\* call before was a sample() too.
WaveSample(t, r) ==
    \E ws \in {WaveTable_sample(Wave, t, r)} :
        /\ instruments' = [instruments EXCEPT ![EnvI].m_waveTable = ws.w]
        /\ last' = [op |-> "wave", t |-> t, r |-> r, ret |-> ws.ret,
                    pre |-> Wave,
                    swept |-> last.op = "wave",
                    prev |-> IF last.op = "wave" THEN last.t ELSE Zero]
        /\ UNCHANGED << m_channels, m_masterVolume, m_sampleRate, m_time,
                        faults, scen, drv, sl, rel, calls, pc, sw >>

NextWave ==
    \/ \E wf \in WaveForms : SetWaveForm(wf)
    \/ \E v \in BOOLEAN : Noise(v)
    \/ \E t \in WaveTimes :
          \E r \in IF Wave.m_noise /\ RGe(t, Q(1, 2)) THEN NoiseValues
                   ELSE {Zero} :
              WaveSample(t, r)

SpecWave ==
    InitWave /\ [][NextWave]_vars

\* The table position floor(t * N) mod N of the phase t.
WaveIndex(t) ==
    Floor(RMul(t, Int2Q(WaveTableSize))) % WaveTableSize

\* The interpolation of the table w at t with the fractional weight
\* t * N - index.
Interpolated(w, t) ==
    LERP(w.m_waveTable[WaveIndex(t) + 1],
         w.m_waveTable[((WaveIndex(t) + 1) % WaveTableSize) + 1],
         RSub(RMul(t, Int2Q(WaveTableSize)), Int2Q(WaveIndex(t))))

\* C17: with noise mode off, sample(t) for t in [0, 1) is the linear
\* interpolation between the table entries floor(t * N) mod N and the next
\* one with the fractional weight t * N - index, so that t = k / N returns
\* entry k; for the sine table t = 0, 1/4, 1/2, 3/4 return 0, 1, 0, -1 to
\* within the table's discretization error.
C17_WaveInterpolated ==
    (last.op = "wave" /\ ~last.pre.m_noise) =>
        /\ last.ret = Interpolated(last.pre, last.t)
        /\ \A k \in 0..(WaveTableSize - 1) :
               last.t = Q(k, WaveTableSize) =>
                   last.ret = last.pre.m_waveTable[k + 1]
        /\ last.pre.m_waveTable = WaveTable_new.m_waveTable =>
               \A q \in 0..3 :
                   last.t = Q(q, 4) =>
                       RLe(RAbs(RSub(last.ret, SinTurn(last.t))), Q(1, 100))

\* C18: with noise mode on, over the calls of one sweep of the phase through
\* [0, 1) the held noise value is drawn anew at exactly one call, the one at
\* which t crosses 1/2; every other call returns the held value and draws
\* no random number.
C18_NoiseRolledOnce ==
    (/\ last.op = "wave" /\ last.pre.m_noise
     /\ last.swept /\ RLt(last.prev, last.t)
     /\ ~(RLt(last.prev, Q(1, 2)) /\ RGe(last.t, Q(1, 2))))
    => /\ last.ret = last.pre.m_lastNoise
       /\ Wave.m_lastNoise = last.pre.m_lastNoise

(***************************************************************************)
(* The note-offset index: a channel played and stopped on the beat and     *)
(* sampled until the index has reached the end of the table                *)
(***************************************************************************)
\* The Sounds played: A3 without an instrument, on the flat instrument and
\* on the one whose note table drops an octave.
NoteSounds ==
    { [Sound_new EXCEPT !.note = 33, !.instrument = i] : i \in {NULL, 1, 2} }

\* m_channels[c].play(sound) on a beat.
PlayOnBeat(c, sound) ==
    /\ m_channels[c].m_time = Zero
    /\ Play(c, sound)

\* m_channels[c].stop() on a beat.
StopOnBeat(c) ==
    /\ m_channels[c].m_time = Zero
    /\ Stop(c)

NextNote ==
    \/ \E c \in PlayedChans, sound \in NoteSounds : PlayOnBeat(c, sound)
    \/ \E c \in PlayedChans : StopOnBeat(c)
    \/ SampleLong

SpecNote ==
    InitArp /\ [][NextNote]_vars

\* C19: the index into the instrument's 16-entry note-offset table is in
\* 0..15 in every state of every channel; play() sets it to 0; a sample() on
\* a channel with an instrument leaves it or adds exactly 1, and leaves it
\* once it is 15; stop() does not change it; no read is outside the table.
C19_NoteIndexInTable ==
    /\ \A c \in Chans : m_channels[c].m_currentNote \in 0..(NoteTableSize - 1)
    /\ last.op = "play" => m_channels[last.c].m_currentNote = 0
    /\ last.op = "stop" =>
           m_channels[last.c].m_currentNote = last.pre.m_currentNote
    /\ last.op = "sample" =>
           \A c \in Chans :
               /\ m_channels[c].m_currentNote \in
                      {last.pre[c].m_currentNote,
                       last.pre[c].m_currentNote + 1}
               /\ last.pre[c].m_currentNote = NoteTableSize - 1 =>
                      m_channels[c].m_currentNote = NoteTableSize - 1
    /\ "note_index" \notin faults

\* A sample() that ends a note step with the index already at 15, on a
\* channel that was stopped with the index at 15.
C19_Witness ==
    /\ last.op = "sample"
    /\ last.pre[0].m_current.instrument # NULL
    /\ ~last.pre[0].m_playing
    /\ last.pre[0].m_currentNote = NoteTableSize - 1
    /\ last.pre[0].m_notesTime # Zero
    /\ m_channels[0].m_notesTime = Zero
    /\ m_channels[0].m_currentNote = NoteTableSize - 1

====
